---- MODULE Spec2Model ----
(***************************************************************************)
(* Data Trust Analyzer (src/main.py): analyze_dataset classifies every     *)
(* column of a table, appends one record per column to the report and      *)
(* reduces the report to one dataset verdict.                              *)
(*                                                                         *)
(* A table is a sequence of columns of total_rows entries each.  A column  *)
(* is natively numeric (integer entries, possibly missing) or textual      *)
(* (strings, possibly missing).  Strings are sequences of characters, so   *)
(* that the symbol stripping and the parsing of try_convert_to_number are  *)
(* computed, not assumed.  The pandas statistics (quantile with linear     *)
(* interpolation, sample standard deviation, adjusted Fisher-Pearson       *)
(* skewness) are computed exactly on scaled integers: quartiles times 4,   *)
(* fences times 8, deviations times the count.  The float thresholds       *)
(* (x * 0.9, x * 0.1, x * 0.4, percent >= 30) are compared as the          *)
(* equivalent integer inequalities.                                        *)
(***************************************************************************)
EXTENDS Integers, Sequences, FiniteSets, TLC

VARIABLES total_rows, df, idx, results, verdict, pc

vars == <<total_rows, df, idx, results, verdict, pc>>

(***************************************************************************)
(* Bounds of the model.                                                    *)
(***************************************************************************)
\* rows of a table: total_rows ranges over 1..MaxRows
MaxRows == 4
\* a natively numeric entry is missing or one of 1..MaxVal
MaxVal == 4
\* columns of a table drawn from the representative columns
MaxCols == 3
\* columns of a table that mixes one High Risk column with one other column
MaxMixCols == 10
\* rows of the long columns, where 5%, 10%, 30% and 90% of the rows are whole
LongRows == 20

----------------------------------------------------------------------------
(***************************************************************************)
(* Entries and columns.                                                    *)
(***************************************************************************)
\* a numeric entry: missing (NaN) or the integer v
NumEntry(v) == [na |-> FALSE, v |-> v, s |-> <<>>]
\* a textual entry: the string s
StrEntry(s) == [na |-> FALSE, v |-> 0, s |-> s]
\* the absence marker of pandas (NaN), numeric or textual column alike
NaN == [na |-> TRUE, v |-> 0, s |-> <<>>]

\* the strings a textual entry is drawn from: "$1", "2%", "1,", "x"
TextValues == { <<"$", "1">>, <<"2", "%">>, <<"1", ",">>, <<"x">> }

NumericEntries == {NaN} \cup {NumEntry(v) : v \in 1..MaxVal}
TextEntries == {NaN} \cup {StrEntry(s) : s \in TextValues}

\* the columns read_csv can produce with n rows: an integer or float column,
\* or an object column holding at least one string (a column with no string
\* at all is read as a float column of NaN)
NumericColumns(n) == {[numeric |-> TRUE, vals |-> f] : f \in [1..n -> NumericEntries]}
TextColumns(n) ==
  {[numeric |-> FALSE, vals |-> f] :
     f \in {g \in [1..n -> TextEntries] : \E i \in 1..n : ~g[i].na}}
ColumnPool(n) == NumericColumns(n) \cup TextColumns(n)

----------------------------------------------------------------------------
(***************************************************************************)
(* Sequence helpers.                                                       *)
(***************************************************************************)
RECURSIVE SumSeq(_)
SumSeq(s) == IF s = <<>> THEN 0 ELSE Head(s) + SumSeq(Tail(s))

RECURSIVE Insert(_, _)
Insert(x, s) ==
  IF s = <<>> THEN <<x>>
  ELSE IF x <= Head(s) THEN <<x>> \o s
  ELSE <<Head(s)>> \o Insert(x, Tail(s))

\* Series.sort_values(): ascending
RECURSIVE sort_values(_)
sort_values(s) == IF s = <<>> THEN <<>> ELSE Insert(Head(s), sort_values(Tail(s)))

\* a slip of isna_sum: counts the present entries (notna) instead
notna_sum(column) == Cardinality({i \in 1..Len(column.vals) : ~column.vals[i].na})

\* Series.isna().sum()
isna_sum(column) == Cardinality({i \in 1..Len(column.vals) : column.vals[i].na})

\* Series.dropna() of a numeric series, as the sequence of its values
dropna(vals) ==
  LET kept == SelectSeq(vals, LAMBDA e : ~e.na)
  IN  [i \in 1..Len(kept) |-> kept[i].v]

\* Series.nunique(): distinct non-missing values
nunique(vals) ==
  LET kept == dropna(vals)
  IN  Cardinality({kept[i] : i \in 1..Len(kept)})

\* Series.diff().dropna(): consecutive differences
diff(s) == [i \in 1..(IF Len(s) = 0 THEN 0 ELSE Len(s) - 1) |-> s[i + 1] - s[i]]

----------------------------------------------------------------------------
(***************************************************************************)
(* is_index_like                                                           *)
(***************************************************************************)
\* unique_values < total_rows * 0.9
TooFewUnique(unique_values, n) == 10 * unique_values < 9 * n

\* differences.nunique() == 1
differences_nunique(vals) ==
  LET d == diff(sort_values(dropna(vals)))
  IN  Cardinality({d[i] : i \in 1..Len(d)})

\* a slip of is_index_like: differences.nunique() <= 1, true of an empty
\* set of differences
is_index_like_unguarded(column, n) ==
  IF ~column.numeric THEN FALSE
  ELSE IF TooFewUnique(nunique(column.vals), n) THEN FALSE
  ELSE differences_nunique(column.vals) <= 1

\* a slip of is_index_like: uniqueness measured against the present entries
\* instead of total_rows
is_index_like_present(column, n) ==
  IF ~column.numeric THEN FALSE
  ELSE IF TooFewUnique(nunique(column.vals), Len(dropna(column.vals))) THEN FALSE
  ELSE differences_nunique(column.vals) = 1

is_index_like(column, n) ==
  IF ~column.numeric THEN FALSE
  ELSE IF TooFewUnique(nunique(column.vals), n) THEN FALSE
  ELSE differences_nunique(column.vals) = 1

----------------------------------------------------------------------------
(***************************************************************************)
(* try_convert_to_number                                                   *)
(***************************************************************************)
Digits == {"0", "1", "2", "3", "4", "5", "6", "7", "8", "9"}

DigitValue(c) ==
  CASE c = "0" -> 0 [] c = "1" -> 1 [] c = "2" -> 2 [] c = "3" -> 3
    [] c = "4" -> 4 [] c = "5" -> 5 [] c = "6" -> 6 [] c = "7" -> 7
    [] c = "8" -> 8 [] c = "9" -> 9

\* column.astype(str): a missing entry becomes the string "nan"
astype_str(e) == IF e.na THEN <<"n", "a", "n">> ELSE e.s

\* str.replace(ch, "", regex=False): every occurrence of ch removed
str_replace(s, ch) == SelectSeq(s, LAMBDA c : c # ch)

RECURSIVE DecimalValue(_)
DecimalValue(s) ==
  IF s = <<>> THEN 0
  ELSE 10 * DecimalValue(SubSeq(s, 1, Len(s) - 1)) + DigitValue(s[Len(s)])

\* pd.to_numeric(s, errors="coerce") over the model's alphabet: a non-empty
\* string of digits parses, anything else ("nan", "", "x") becomes NaN
to_numeric(s) ==
  IF s # <<>> /\ \A i \in 1..Len(s) : s[i] \in Digits
  THEN NumEntry(DecimalValue(s))
  ELSE NaN

cleaned(e) == str_replace(str_replace(str_replace(astype_str(e), "$"), ","), "%")

\* converted.notna().mean(), as numerator and denominator
notna_mean(converted) ==
  [num |-> Cardinality({i \in 1..Len(converted) : ~converted[i].na}),
   den |-> Len(converted)]

\* a slip of try_convert_to_number: the success rate taken over the entries
\* that were present, missing entries skipped
try_convert_to_number_skipna(column) ==
  LET converted == [i \in 1..Len(column.vals) |-> to_numeric(cleaned(column.vals[i]))]
  IN  [converted |-> converted,
       success_rate |->
         [num |-> Cardinality({i \in 1..Len(converted) : ~converted[i].na}),
          den |-> Cardinality({i \in 1..Len(converted) : ~column.vals[i].na})]]

try_convert_to_number(column) ==
  LET converted == [i \in 1..Len(column.vals) |-> to_numeric(cleaned(column.vals[i]))]
  IN  [converted |-> converted, success_rate |-> notna_mean(converted)]

\* success_rate >= 0.9
SuccessRateOk(success_rate) == 10 * success_rate.num >= 9 * success_rate.den

----------------------------------------------------------------------------
(***************************************************************************)
(* Statistics of numeric_values (a non-empty sequence of integers).        *)
(***************************************************************************)
\* Series.quantile(k/4), linear interpolation, times 4
QuantileX4(values, k) ==
  LET sorted == sort_values(values)
      pos4   == (Len(sorted) - 1) * k
      lo     == (pos4 \div 4) + 1
      r      == pos4 % 4
  IN  IF r = 0 THEN 4 * sorted[lo]
      ELSE 4 * sorted[lo] + r * (sorted[lo + 1] - sorted[lo])

q1x4(values) == QuantileX4(values, 1)
q3x4(values) == QuantileX4(values, 3)
iqrx4(values) == q3x4(values) - q1x4(values)

\* deviations from the mean, times the count: count * (x - mean)
Adjusted(values) ==
  [i \in 1..Len(values) |-> Len(values) * values[i] - SumSeq(values)]

\* count * sum((x - mean)^2) and count^2 * sum((x - mean)^3): both integers
M2(values) ==
  LET adjusted == Adjusted(values)
  IN  SumSeq([i \in 1..Len(values) |-> adjusted[i] * adjusted[i]]) \div Len(values)
M3(values) ==
  LET adjusted == Adjusted(values)
  IN  SumSeq([i \in 1..Len(values) |-> adjusted[i] * adjusted[i] * adjusted[i]])
        \div Len(values)

\* abs(numeric_values.skew()) > 0.5; skew is NaN below three values and 0
\* when all values are equal, else count*sqrt(count-1)/(count-2) * m3/m2^1.5
\* with m2, m3 the sums of squared and cubed deviations (0 when m3 is 0);
\* compared squared
SkewAbove(values) ==
  LET count == Len(values)
      m2    == M2(values)
      m3    == M3(values)
  IN  /\ count >= 3
      /\ m2 # 0
      /\ m3 # 0
      /\ 4 * count * (count - 1) * m3 * m3 > (count - 2) * (count - 2) * m2 * m2 * m2

\* std_dev > iqr, std_dev the sample standard deviation (NaN for one value);
\* compared squared: m2 / (count - 1) > iqr^2
StdAboveIqr(values) ==
  LET count == Len(values)
      iqr4  == iqrx4(values)
  IN  /\ count >= 2
      /\ 16 * M2(values) > iqr4 * iqr4 * count * (count - 1)

\* if abs(skew_value) > 0.5: result["distorted"] = True
Distorted(values) == SkewAbove(values)

\* if iqr > 0 and std_dev > iqr: result["unstable"] = True
Unstable(values) == iqrx4(values) > 0 /\ StdAboveIqr(values)

\* lower_bound = q1 - 1.5 * iqr and upper_bound = q3 + 1.5 * iqr, times 8
lower_boundx8(values) == 2 * q1x4(values) - 3 * iqrx4(values)
upper_boundx8(values) == 2 * q3x4(values) + 3 * iqrx4(values)

\* a slip of outliers: values on the fence counted (<= and >=)
outliers_inclusive(values) ==
  LET lower8 == lower_boundx8(values)
      upper8 == upper_boundx8(values)
  IN  SelectSeq(values, LAMBDA x : 8 * x <= lower8 \/ 8 * x >= upper8)

\* numeric_values[(numeric_values < lower_bound) | (numeric_values > upper_bound)]
outliers(values) ==
  LET lower8 == lower_boundx8(values)
      upper8 == upper_boundx8(values)
  IN  SelectSeq(values, LAMBDA x : 8 * x < lower8 \/ 8 * x > upper8)

----------------------------------------------------------------------------
(***************************************************************************)
(* analyze_dataset: the record of one column.                              *)
(***************************************************************************)
\* a slip of the missing thresholds: missing_percent > pct
missing_percent_gt(missing_count, n, pct) == 100 * missing_count > pct * n

\* missing_percent >= pct, with missing_percent = missing_count / total_rows * 100
missing_percent_ge(missing_count, n, pct) == 100 * missing_count >= pct * n

\* round(missing_percent, 2), in hundredths of a percent (ties to even)
round2(missing_count, n) ==
  LET q == (10000 * missing_count) \div n
      r == (10000 * missing_count) % n
  IN  IF 2 * r > n \/ (2 * r = n /\ q % 2 = 1) THEN q + 1 ELSE q

\* the record as initialised before classification
result(column_name, column, n) ==
  [column          |-> column_name,
   data_type       |-> "",
   missing_count   |-> isna_sum(column),
   missing_percent |-> round2(isna_sum(column), n),
   distorted       |-> FALSE,
   unstable        |-> FALSE,
   outlier_count   |-> 0,
   trust           |-> "",
   remarks         |-> ""]

\* the textual column passes the coercion test: success_rate >= 0.9
Converts(column) == SuccessRateOk(try_convert_to_number(column).success_rate)

\* numeric_values: column.dropna() or converted_column.dropna()
numeric_values(column) ==
  IF column.numeric THEN dropna(column.vals)
  ELSE dropna(try_convert_to_number(column).converted)

\* the trust of a categorical column
CategoricalTrust(missing_count, n) ==
  IF missing_percent_ge(missing_count, n, 30) THEN "High Risk"
  ELSE IF missing_percent_ge(missing_count, n, 5) THEN "Needs Cleaning"
  ELSE "Reliable"

\* len(outliers) > total_rows * 0.1
TooManyOutliers(outlier_count, n) == 10 * outlier_count > n

\* a slip of the trust classification: the distribution rule tested before
\* the outlier rule
TrustClassificationFlagsFirst(missing_count, n, outlier_count, distorted, unstable) ==
  IF 100 * missing_count >= 30 * n
  THEN [trust |-> "High Risk", remarks |-> "Too many missing values"]
  ELSE IF distorted \/ unstable \/ 100 * missing_count >= 5 * n
  THEN [trust |-> "Needs Cleaning", remarks |-> "Distribution issues detected"]
  ELSE IF 10 * outlier_count > n
  THEN [trust |-> "High Risk", remarks |-> "Excessive outliers"]
  ELSE [trust |-> "Reliable", remarks |-> "Column is reliable"]

\* the trust classification of a scored column: trust and remarks
TrustClassification(missing_count, n, outlier_count, distorted, unstable) ==
  IF missing_percent_ge(missing_count, n, 30)
  THEN [trust |-> "High Risk", remarks |-> "Too many missing values"]
  ELSE IF TooManyOutliers(outlier_count, n)
  THEN [trust |-> "High Risk", remarks |-> "Excessive outliers"]
  ELSE IF distorted \/ unstable \/ missing_percent_ge(missing_count, n, 5)
  THEN [trust |-> "Needs Cleaning", remarks |-> "Distribution issues detected"]
  ELSE [trust |-> "Reliable", remarks |-> "Column is reliable"]

NumericType(column) == IF column.numeric THEN "Numeric" ELSE "Numeric (converted)"

IdentifierRecord(column_name, column, n) ==
  [result(column_name, column, n) EXCEPT
     !.data_type = "Identifier", !.trust = "Ignored", !.remarks = "Identifier column"]

\* a slip of the categorical exit: the statistics of the values that did
\* parse are computed before the column is given up as categorical
CategoricalRecordScored(column_name, column, n) ==
  LET values == dropna(try_convert_to_number(column).converted)
  IN  [result(column_name, column, n) EXCEPT
         !.data_type = "Categorical",
         !.distorted = values # <<>> /\ Distorted(values),
         !.unstable = values # <<>> /\ Unstable(values),
         !.outlier_count = IF values = <<>> THEN 0 ELSE Len(outliers(values)),
         !.trust = CategoricalTrust(isna_sum(column), n),
         !.remarks = "Categorical column"]

CategoricalRecord(column_name, column, n) ==
  [result(column_name, column, n) EXCEPT
     !.data_type = "Categorical",
     !.trust = CategoricalTrust(isna_sum(column), n),
     !.remarks = "Categorical column"]

EmptyNumericRecord(column_name, column, n) ==
  [result(column_name, column, n) EXCEPT
     !.data_type = NumericType(column),
     !.trust = "High Risk",
     !.remarks = "All values missing"]

ScoredRecord(column_name, column, n) ==
  LET values    == numeric_values(column)
      distorted == Distorted(values)
      unstable  == Unstable(values)
      outlying  == Len(outliers(values))
      decision  == TrustClassification(isna_sum(column), n, outlying, distorted, unstable)
  IN  [result(column_name, column, n) EXCEPT
         !.data_type = NumericType(column),
         !.distorted = distorted,
         !.unstable = unstable,
         !.outlier_count = outlying,
         !.trust = decision.trust,
         !.remarks = decision.remarks]

\* high_risk_count and the dataset-level verdict
high_risk_count(recs) == Cardinality({i \in 1..Len(recs) : recs[i].trust = "High Risk"})

\* a slip of the verdict: high_risk_count >= len(results) * 0.4
DatasetVerdictAtLeast(recs) ==
  IF 5 * high_risk_count(recs) >= 2 * Len(recs) THEN "Dataset is NOT reliable"
  ELSE IF high_risk_count(recs) > 0 THEN "Dataset needs cleaning"
  ELSE "Dataset is safe for analysis"

DatasetVerdict(recs) ==
  IF 5 * high_risk_count(recs) > 2 * Len(recs) THEN "Dataset is NOT reliable"
  ELSE IF high_risk_count(recs) > 0 THEN "Dataset needs cleaning"
  ELSE "Dataset is safe for analysis"

----------------------------------------------------------------------------
(***************************************************************************)
(* analyze_dataset: one action per exit of the loop body, one for the      *)
(* verdict after the loop.  idx counts the columns already visited.        *)
(***************************************************************************)
InLoop == pc = "columns" /\ idx < Len(df)

column_name == idx + 1
column == df[idx + 1]

\* the exit a column takes, by the tests of the loop body in their order
TakesIdentifierExit(col, n) == is_index_like(col, n)

TakesCategoricalExit(col, n) ==
  /\ ~is_index_like(col, n)
  /\ ~col.numeric
  /\ ~Converts(col)

TakesEmptyNumericExit(col, n) ==
  /\ ~is_index_like(col, n)
  /\ col.numeric \/ Converts(col)
  /\ Len(numeric_values(col)) = 0

TakesScoredExit(col, n) ==
  /\ ~is_index_like(col, n)
  /\ col.numeric \/ Converts(col)
  /\ Len(numeric_values(col)) # 0

Emit(rec) ==
  /\ results' = Append(results, rec)
  /\ idx' = idx + 1
  /\ UNCHANGED <<total_rows, df, verdict, pc>>

IdentifierExit ==
  /\ InLoop
  /\ TakesIdentifierExit(column, total_rows)
  /\ Emit(IdentifierRecord(column_name, column, total_rows))

CategoricalExit ==
  /\ InLoop
  /\ TakesCategoricalExit(column, total_rows)
  /\ Emit(CategoricalRecord(column_name, column, total_rows))

\* a slip of the empty-numeric exit: continue without results.append(result)
EmptyNumericExitNoAppend ==
  /\ InLoop
  /\ TakesEmptyNumericExit(column, total_rows)
  /\ idx' = idx + 1
  /\ UNCHANGED <<total_rows, df, results, verdict, pc>>

EmptyNumericExit ==
  /\ InLoop
  /\ TakesEmptyNumericExit(column, total_rows)
  /\ Emit(EmptyNumericRecord(column_name, column, total_rows))

ScoredExit ==
  /\ InLoop
  /\ TakesScoredExit(column, total_rows)
  /\ Emit(ScoredRecord(column_name, column, total_rows))

Verdict ==
  /\ pc = "columns"
  /\ idx = Len(df)
  /\ verdict' = DatasetVerdict(results)
  /\ pc' = "done"
  /\ UNCHANGED <<total_rows, df, idx, results>>

Next ==
  \/ IdentifierExit
  \/ CategoricalExit
  \/ EmptyNumericExit
  \/ ScoredExit
  \/ Verdict

----------------------------------------------------------------------------
(***************************************************************************)
(* The tables analysed.                                                    *)
(***************************************************************************)
Start(n, table) ==
  /\ total_rows = n
  /\ df = table
  /\ idx = 0
  /\ results = <<>>
  /\ verdict = ""
  /\ pc = "columns"

\* scenario columns of n rows, one per exit and trust
Serial(n)     == [numeric |-> TRUE,  vals |-> [i \in 1..n |-> NumEntry(i)]]
Constant(n)   == [numeric |-> TRUE,  vals |-> [i \in 1..n |-> NumEntry(1)]]
AllMissing(n) == [numeric |-> TRUE,  vals |-> [i \in 1..n |-> NaN]]
OneMissing(n) == [numeric |-> TRUE,
                  vals |-> [i \in 1..n |-> IF i = 1 THEN NaN ELSE NumEntry(1)]]
Words(n)      == [numeric |-> FALSE, vals |-> [i \in 1..n |-> StrEntry(<<"x">>)]]
Prices(n)     == [numeric |-> FALSE, vals |-> [i \in 1..n |-> StrEntry(<<"$", "1">>)]]

ScenarioColumns(n) ==
  {Serial(n), Constant(n), AllMissing(n), OneMissing(n), Words(n), Prices(n)}

\* long columns: a run of missing entries followed by a constant run, by a
\* serial run or, with no entry missing, a run of twos followed by ones
ConstantMissing(n, k) ==
  [numeric |-> TRUE, vals |-> [i \in 1..n |-> IF i <= k THEN NaN ELSE NumEntry(1)]]
SerialMissing(n, k) ==
  [numeric |-> TRUE, vals |-> [i \in 1..n |-> IF i <= k THEN NaN ELSE NumEntry(i - k)]]
Spike(n, o) ==
  [numeric |-> TRUE, vals |-> [i \in 1..n |-> IF i <= o THEN NumEntry(2) ELSE NumEntry(1)]]
\* a run of a prices "$1", then b words "x", then missing entries
TextRuns(n, a, b) ==
  [numeric |-> FALSE,
   vals |-> [i \in 1..n |-> IF i <= a THEN StrEntry(<<"$", "1">>)
                            ELSE IF i <= a + b THEN StrEntry(<<"x">>)
                            ELSE NaN]]

LongColumns(n) ==
  {ConstantMissing(n, k) : k \in 0..n}
    \cup {SerialMissing(n, k) : k \in 0..n}
    \cup {Spike(n, o) : o \in 0..n}
    \cup {TextRuns(n, ab[1], ab[2]) :
            ab \in {x \in (0..n) \X (0..n) : x[1] + x[2] >= 1 /\ x[1] + x[2] <= n}}

\* the column with the entries at the positions of mask replaced by missing
\* ones, as read_csv reads it: a column left without any string is numeric
Degrade(col, mask) ==
  LET vals == [i \in 1..Len(col.vals) |-> IF i \in mask THEN NaN ELSE col.vals[i]]
  IN  [numeric |-> col.numeric \/ \A i \in 1..Len(vals) : vals[i].na, vals |-> vals]

\* a table of one column, any column of the pool
InitColumn ==
  \E n \in 1..MaxRows : \E col \in ColumnPool(n) : Start(n, <<col>>)

\* a table of one long column
InitLong == \E col \in LongColumns(LongRows) : Start(LongRows, <<col>>)

\* a column and the same column with some present entries replaced by
\* missing ones
InitPair ==
  \E n \in 1..MaxRows : \E col \in ColumnPool(n) :
    \E mask \in SUBSET {i \in 1..n : ~col.vals[i].na} :
      mask # {} /\ Start(n, <<col, Degrade(col, mask)>>)

\* tables of up to MaxCols scenario columns
InitScenario ==
  \E n \in 1..MaxRows : \E k \in 1..MaxCols :
    \E table \in [1..k -> ScenarioColumns(n)] : Start(n, table)

\* tables of up to MaxMixCols columns mixing the all-missing column with one
\* other scenario column
InitMix ==
  \E other \in ScenarioColumns(MaxRows) : \E k \in 1..MaxMixCols :
    \E table \in [1..k -> {AllMissing(MaxRows), other}] : Start(MaxRows, table)

InitOneColumn == InitColumn \/ InitLong

Init == InitOneColumn \/ InitScenario

Spec == Init /\ [][Next]_vars
SpecColumn == InitOneColumn /\ [][Next]_vars
SpecPair == InitPair /\ [][Next]_vars
SpecMix == InitMix /\ [][Next]_vars

----------------------------------------------------------------------------
(***************************************************************************)
(* Properties.  The expected values are stated on the columns of df and    *)
(* on the fields of the records, independently of the operators above.     *)
(***************************************************************************)
Records == 1..Len(results)

\* the number of missing entries of a column
MissingEntries(col) == Len(SelectSeq(col.vals, LAMBDA e : e.na))

\* the column takes none of the three early exits
ReachesScoring(col) == TakesScoredExit(col, total_rows)

\* the label of the first matching rule, read off the fields of a record
FirstMatch(rec) ==
  IF 100 * rec.missing_count >= 30 * total_rows THEN "High Risk"
  ELSE IF 10 * rec.outlier_count > total_rows THEN "High Risk"
  ELSE IF rec.distorted \/ rec.unstable \/ 100 * rec.missing_count >= 5 * total_rows
  THEN "Needs Cleaning"
  ELSE "Reliable"

\* C1: a column that reaches statistical scoring is labelled by the first
\* matching rule, in the order missing_percent >= 30 (High Risk), outlier_count
\* > total_rows * 0.1 (High Risk), distorted or unstable or missing_percent >= 5
\* (Needs Cleaning), else Reliable.
C1_TrustPriority ==
  \A i \in Records :
    ReachesScoring(df[i]) =>
      /\ results[i].missing_count = MissingEntries(df[i])
      /\ results[i].trust = FirstMatch(results[i])

\* a scored column below 30% missing that is both outlier-ridden and
\* distorted: the outlier rule wins over the distribution rule
C1_Witness ==
  \E i \in Records :
    /\ ReachesScoring(df[i])
    /\ 100 * results[i].missing_count < 30 * total_rows
    /\ 10 * results[i].outlier_count > total_rows
    /\ results[i].distorted
    /\ results[i].trust = "High Risk"

HighRiskRecords(recs) == Len(SelectSeq(recs, LAMBDA r : r.trust = "High Risk"))

\* C2: for a non-empty report the verdict is "Dataset is NOT reliable" exactly
\* when the High Risk records are strictly more than 40% of the records,
\* "Dataset needs cleaning" when there are some but not more than 40%, and
\* "Dataset is safe for analysis" when there are none; 4 of 10 gives "needs
\* cleaning" and 5 of 10 "NOT reliable"; records of any other trust count in
\* the denominator only.
C2_VerdictThresholds ==
  pc = "done" =>
    LET h == HighRiskRecords(results)
        k == Len(results)
    IN  /\ k >= 1
        /\ (verdict = "Dataset is NOT reliable") <=> (10 * h > 4 * k)
        /\ (verdict = "Dataset needs cleaning") <=> (h > 0 /\ 10 * h <= 4 * k)
        /\ (verdict = "Dataset is safe for analysis") <=> (h = 0)
        /\ (k = 10 /\ h = 4) => verdict = "Dataset needs cleaning"
        /\ (k = 10 /\ h = 5) => verdict = "Dataset is NOT reliable"

\* 4 High Risk records out of 10, the other 6 Ignored
C2_Witness ==
  /\ pc = "done"
  /\ Len(results) = 10
  /\ HighRiskRecords(results) = 4
  /\ \E i \in Records : results[i].trust = "Ignored"
  /\ verdict = "Dataset needs cleaning"

Verdicts ==
  {"Dataset is NOT reliable", "Dataset needs cleaning", "Dataset is safe for analysis"}

\* the number of exits open to a column
OpenExits(col) ==
  Cardinality({x \in {"identifier", "categorical", "empty", "scored"} :
     \/ x = "identifier" /\ TakesIdentifierExit(col, total_rows)
     \/ x = "categorical" /\ TakesCategoricalExit(col, total_rows)
     \/ x = "empty" /\ TakesEmptyNumericExit(col, total_rows)
     \/ x = "scored" /\ TakesScoredExit(col, total_rows)})

\* C3: the report holds exactly one record per visited column, in the order
\* of the columns, whichever exit each column takes; exactly one exit is
\* open to every column, and the run ends with the N records of the N
\* columns and exactly one verdict.
C3_OneRecordPerColumn ==
  /\ Len(results) = idx
  /\ idx <= Len(df)
  /\ \A i \in Records :
       /\ results[i].column = i
       /\ results[i].missing_count = MissingEntries(df[i])
  /\ \A i \in 1..Len(df) : OpenExits(df[i]) = 1
  /\ pc = "done" => Len(results) = Len(df) /\ verdict \in Verdicts /\ ~ENABLED Verdict
  /\ pc # "done" => verdict = "" /\ (idx = Len(df) => ENABLED Verdict)

\* a finished run over three columns that took three different early exits
C3_Witness ==
  /\ pc = "done"
  /\ Len(df) = 3
  /\ results[1].remarks = "Identifier column"
  /\ results[2].remarks = "Categorical column"
  /\ results[3].remarks = "All values missing"

\* the distinct non-missing values of a column
DistinctPresent(col) == {col.vals[i].v : i \in {j \in 1..Len(col.vals) : ~col.vals[j].na}}

\* at least two non-missing values, all consecutive differences of the
\* ascending values identical
ConstantStep(col) ==
  LET s == sort_values(dropna(col.vals))
  IN  /\ Len(s) >= 2
      /\ \A i, j \in 1..(Len(s) - 1) : s[i + 1] - s[i] = s[j + 1] - s[j]

IdentifierExpected(col) ==
  /\ col.numeric
  /\ 10 * Cardinality(DistinctPresent(col)) >= 9 * total_rows
  /\ ConstantStep(col)

\* C4: is_index_like is true exactly when the column is natively numeric, has
\* at least 0.9 * total_rows distinct non-missing values and its ascending
\* non-missing values are at least two with one constant step; it is false
\* for a textual column, for [1,2,4,5] and for 0 or 1 non-missing values.
C4_IdentifierExactness ==
  /\ \A i \in 1..Len(df) : is_index_like(df[i], total_rows) <=> IdentifierExpected(df[i])
  /\ \A i \in Records : (results[i].data_type = "Identifier") <=> IdentifierExpected(df[i])
  /\ ~is_index_like([numeric |-> TRUE,
                     vals |-> <<NumEntry(1), NumEntry(2), NumEntry(4), NumEntry(5)>>], 4)

\* an identifier with missing entries whose distinct values are exactly 90%
\* of the rows
C4_Witness ==
  \E i \in Records :
    /\ results[i].data_type = "Identifier"
    /\ results[i].missing_count > 0
    /\ 10 * Cardinality(DistinctPresent(df[i])) = 9 * total_rows

Symbols == {"$", ",", "%"}

\* the entry is present and, its symbols removed, a non-empty string of digits
Parses(e) ==
  /\ ~e.na
  /\ LET stripped == SelectSeq(e.s, LAMBDA c : c \notin Symbols)
     IN  stripped # <<>> /\ \A k \in 1..Len(stripped) : stripped[k] \in Digits

ParsedCount(col) == Cardinality({i \in 1..Len(col.vals) : Parses(col.vals[i])})

\* C5: for a textual column the success ratio is the number of entries that
\* parse after removing $ , % over total_rows (missing entries are failures),
\* and the column is "Numeric (converted)" exactly when the ratio is >= 0.9,
\* Categorical below.
C5_CoercionThreshold ==
  /\ \A i \in 1..Len(df) :
       ~df[i].numeric =>
         try_convert_to_number(df[i]).success_rate
           = [num |-> ParsedCount(df[i]), den |-> total_rows]
  /\ \A i \in Records :
       ~df[i].numeric =>
         /\ (results[i].data_type = "Numeric (converted)")
              <=> (10 * ParsedCount(df[i]) >= 9 * total_rows)
         /\ (results[i].data_type = "Categorical")
              <=> (10 * ParsedCount(df[i]) < 9 * total_rows)

\* a textual column with missing entries that parses at exactly 90%
C5_Witness ==
  \E i \in Records :
    /\ ~df[i].numeric
    /\ results[i].missing_count > 0
    /\ 10 * ParsedCount(df[i]) = 9 * total_rows
    /\ results[i].data_type = "Numeric (converted)"

Ranked(trust) == trust \in {"Reliable", "Needs Cleaning", "High Risk"}

Rank(trust) ==
  CASE trust = "Reliable" -> 1
    [] trust = "Needs Cleaning" -> 2
    [] trust = "High Risk" -> 3

\* the second record keeps the signals of the first
SignalsKept(first, second) ==
  /\ second.outlier_count >= first.outlier_count
  /\ first.distorted => second.distorted
  /\ first.unstable => second.unstable

\* C6 as stated: a column with present entries replaced by missing ones is
\* never labelled less risky than the original column.
C6_Monotone ==
  (Len(results) = 2 /\ Ranked(results[1].trust) /\ Ranked(results[2].trust))
    => Rank(results[2].trust) >= Rank(results[1].trust)

\* C6 as amended: the same, provided the degraded column's outlier_count is
\* not lower and it keeps every distorted or unstable flag of the original.
C6_MonotoneSignalsKept ==
  (/\ Len(results) = 2
   /\ Ranked(results[1].trust)
   /\ Ranked(results[2].trust)
   /\ SignalsKept(results[1], results[2]))
    => Rank(results[2].trust) >= Rank(results[1].trust)

\* a scored column whose degraded copy keeps its signals and is labelled
\* strictly more risky
C6_Witness ==
  /\ Len(results) = 2
  /\ ReachesScoring(df[1])
  /\ ReachesScoring(df[2])
  /\ results[1].unstable
  /\ SignalsKept(results[1], results[2])
  /\ results[1].trust = "Needs Cleaning"
  /\ results[2].trust = "High Risk"

\* C7 as stated: a column with missing_percent >= 30 is High Risk with remarks
\* "Too many missing values", textual columns included.
C7_TooManyMissing ==
  \A i \in Records :
    100 * MissingEntries(df[i]) >= 30 * total_rows =>
      /\ results[i].trust = "High Risk"
      /\ results[i].remarks = "Too many missing values"

\* C7 as amended: a column with missing_percent >= 30 is High Risk; its
\* remarks are "Too many missing values" when it is natively numeric with a
\* value present, "All values missing" when no value is present and
\* "Categorical column" when it is textual.
C7_TooManyMissingByExit ==
  \A i \in Records :
    100 * MissingEntries(df[i]) >= 30 * total_rows =>
      /\ results[i].trust = "High Risk"
      /\ results[i].remarks =
           IF ~df[i].numeric THEN "Categorical column"
           ELSE IF MissingEntries(df[i]) = total_rows THEN "All values missing"
           ELSE "Too many missing values"

\* a numeric column with exactly 35% of its entries missing
C7_Witness ==
  \E i \in Records :
    /\ df[i].numeric
    /\ 100 * MissingEntries(df[i]) = 35 * total_rows
    /\ results[i].remarks = "Too many missing values"

\* the values strictly outside [q1 - 1.5*iqr, q3 + 1.5*iqr]
StrictOutlierCount(col) ==
  LET values == numeric_values(col)
  IN  Cardinality({k \in 1..Len(values) :
                     \/ 8 * values[k] < 2 * q1x4(values) - 3 * iqrx4(values)
                     \/ 8 * values[k] > 2 * q3x4(values) + 3 * iqrx4(values)})

\* C8 as stated: a scored column below 30% missing with more outliers than
\* total_rows * 0.1 is High Risk with remarks "Too many outliers".
C8_TooManyOutliers ==
  \A i \in Records :
    (/\ ReachesScoring(df[i])
     /\ 100 * MissingEntries(df[i]) < 30 * total_rows
     /\ 10 * StrictOutlierCount(df[i]) > total_rows)
      => /\ results[i].trust = "High Risk"
         /\ results[i].remarks = "Too many outliers"

\* C8 as amended: outlier_count is the number of values strictly outside the
\* fence, and such a column is High Risk with remarks "Excessive outliers".
C8_ExcessiveOutliers ==
  \A i \in Records :
    ReachesScoring(df[i]) =>
      /\ results[i].outlier_count = StrictOutlierCount(df[i])
      /\ (/\ 100 * MissingEntries(df[i]) < 30 * total_rows
          /\ 10 * StrictOutlierCount(df[i]) > total_rows)
           => /\ results[i].trust = "High Risk"
              /\ results[i].remarks = "Excessive outliers"

\* the smallest outlier count above 10% of the rows, the other values
\* lying on the fence
C8_Witness ==
  \E i \in Records :
    /\ ReachesScoring(df[i])
    /\ 10 * (results[i].outlier_count - 1) = total_rows
    /\ iqrx4(numeric_values(df[i])) = 0
    /\ results[i].remarks = "Excessive outliers"

DataTypes == {"Identifier", "Numeric", "Numeric (converted)", "Categorical"}
TrustValues == {"Ignored", "Reliable", "Needs Cleaning", "High Risk"}

\* C9: every record carries one data_type and one trust of the enumerations;
\* an Identifier or Categorical record has distorted and unstable false and
\* outlier_count 0, and its trust is Ignored, respectively the label of the
\* missing percentage alone.
C9_DefaultsOffScoring ==
  \A i \in Records :
    /\ results[i].data_type \in DataTypes
    /\ results[i].trust \in TrustValues
    /\ results[i].data_type \in {"Identifier", "Categorical"} =>
         /\ ~results[i].distorted
         /\ ~results[i].unstable
         /\ results[i].outlier_count = 0
    /\ results[i].data_type = "Identifier" => results[i].trust = "Ignored"
    /\ results[i].data_type = "Categorical" =>
         results[i].trust =
           IF 100 * MissingEntries(df[i]) >= 30 * total_rows THEN "High Risk"
           ELSE IF 100 * MissingEntries(df[i]) >= 5 * total_rows THEN "Needs Cleaning"
           ELSE "Reliable"

\* a categorical record of a column most of whose entries parse to skewed
\* numbers
C9_Witness ==
  \E i \in Records :
    /\ results[i].data_type = "Categorical"
    /\ ParsedCount(df[i]) >= 3
    /\ Distorted(dropna(try_convert_to_number(df[i]).converted))
    /\ results[i].trust = "Needs Cleaning"

\* C10: a column whose unrounded missing percentage is >= 30 is High Risk on
\* every path and never an Identifier; trust is Ignored exactly when
\* data_type is Identifier.
C10_HighMissingAlwaysHighRisk ==
  \A i \in Records :
    /\ 100 * MissingEntries(df[i]) >= 30 * total_rows =>
         /\ results[i].trust = "High Risk"
         /\ results[i].data_type # "Identifier"
         /\ ~is_index_like(df[i], total_rows)
    /\ (results[i].trust = "Ignored") <=> (results[i].data_type = "Identifier")

\* a serial column with exactly 30% of its entries missing: constant step,
\* yet scored and High Risk
C10_Witness ==
  \E i \in Records :
    /\ 100 * MissingEntries(df[i]) = 30 * total_rows
    /\ ConstantStep(df[i])
    /\ Cardinality(DistinctPresent(df[i])) = total_rows - MissingEntries(df[i])
    /\ ReachesScoring(df[i])
    /\ results[i].trust = "High Risk"

====
